---- MODULE Spec2Model ----
(***************************************************************************)
(* Model of pyrabbit/http.py: HTTPClient, a thin wrapper around the        *)
(* broker's HTTP management API.  Every public operation builds one path   *)
(* from the urls table, sends it through do_call and translates the        *)
(* outcome.  Strings are sequences of tokens ("/" and the placeholder      *)
(* "%s" are tokens of their own), so that '%' formatting and os.path.join  *)
(* are computed rather than assumed.                                       *)
(***************************************************************************)
EXTENDS Integers, Sequences, FiniteSets, TLC

VARIABLES base_url, op, vhost, name, transport, call, result, sent

vars == <<base_url, op, vhost, name, transport, call, result, sent>>

(* ------------------------------ bounds --------------------------------- *)

\* Number of requests handed to the transport over the client's lifetime.
MaxSent == 3

(* ------------------------- Python values ------------------------------- *)

None == [t |-> "None", s |-> <<>>]

Str(toks) == [t |-> "str", s |-> toks]

\* Python truthiness of None or a str: None and '' are falsy.
Truthy(v) == v.t = "str" /\ v.s # <<>>

\* The strings callers pass as vhost / name: '', '%2F' (the default vhost,
\* url-encoded) and an ordinary name.
Strings == {Str(<<>>), Str(<<"%2F">>), Str(<<"q1">>)}

OptStrings == Strings \cup {None}

\* 'host:port' strings given to the constructor.
Servers == {"localhost:55672", "rabbit:15672"}

(* --------------------------- urls table -------------------------------- *)

urls ==
  [overview |-> <<"overview">>,
   all_queues |-> <<"queues">>,
   all_exchanges |-> <<"exchanges">>,
   all_channels |-> <<"channels">>,
   all_connections |-> <<"connections">>,
   all_nodes |-> <<"nodes">>,
   all_vhosts |-> <<"vhosts">>,
   all_users |-> <<"users">>,
   whoami |-> <<"whoami">>,
   queues_by_vhost |-> <<"queues", "/", "%s">>,
   queues_by_name |-> <<"queues", "/", "%s", "/", "%s">>,
   exchanges_by_vhost |-> <<"exchanges", "/", "%s">>,
   exchange_by_name |-> <<"exchanges", "/", "%s", "/", "%s">>,
   live_test |-> <<"aliveness-test", "/", "%s">>,
   purge_queue |-> <<"queues", "/", "%s", "/", "%s", "/", "contents">>,
   connections_by_name |-> <<"connections", "/", "%s">>]

\* template % args for str arguments: each "%s", left to right, is replaced
\* by the next argument.
RECURSIVE Format(_, _)
Format(tmpl, args) ==
  IF tmpl = <<>> THEN <<>>
  ELSE IF Head(tmpl) = "%s"
       THEN Head(args).s \o Format(Tail(tmpl), Tail(args))
       ELSE <<Head(tmpl)>> \o Format(Tail(tmpl), args)

\* os.path.join(a, b) (posixpath): an absolute b replaces a; otherwise the
\* two are joined by exactly one "/".
Join(a, b) ==
  IF b # <<>> /\ Head(b) = "/" THEN b
  ELSE IF a = <<>> \/ a[Len(a)] = "/" THEN a \o b
  ELSE a \o <<"/">> \o b

\* HTTPClient.__init__: 'http://%s/api' % server
BaseUrl(server) == <<"http:", "/", "/", server, "/", "api">>

(* --------------------------- the transport ----------------------------- *)

Statuses == {200, 204, 401, 404, 500}

ReasonOf(s) ==
  CASE s = 200 -> "OK"
    [] s = 204 -> "No Content"
    [] s = 401 -> "Unauthorized"
    [] s = 404 -> "Not Found"
    [] OTHER   -> "Internal Server Error"

\* Response bodies: a JSON object, a JSON array, bytes that are not JSON and
\* bytes that are not UTF-8.
Contents == {"{}", "[]", "<html>", "\\xff"}

\* What self.client.request(path, reqtype) can do: raise, or hand back
\* (resp, content).
TransportOutcomes ==
  {[kind |-> "exception", status |-> 0, reason |-> "", content |-> ""]}
  \cup {[kind |-> "response", status |-> s, reason |-> ReasonOf(s), content |-> c] :
          s \in Statuses, c \in Contents}

NoTransport == [kind |-> "none", status |-> 0, reason |-> "", content |-> ""]

(* ------------------------------ do_call -------------------------------- *)

Request(path, reqtype) == [uri |-> path, method |-> reqtype]

\* do_call accepting every 2xx status as success.
do_call_any2xx(path, reqtype, t) ==
  LET reqs == <<Request(path, reqtype)>> IN
  IF t.kind = "exception"
  THEN [requests |-> reqs, kind |-> "raise", exc |-> "NetworkError",
        status |-> 0, reason |-> "", path |-> <<>>, content |-> ""]
  ELSE IF t.status < 200 \/ t.status > 299
  THEN [requests |-> reqs, kind |-> "raise", exc |-> "HTTPError",
        status |-> t.status, reason |-> t.reason, path |-> path, content |-> ""]
  ELSE [requests |-> reqs, kind |-> "return", exc |-> "",
        status |-> t.status, reason |-> t.reason, path |-> <<>>,
        content |-> t.content]

\* do_call sending the request a second time after a transport failure.
do_call_retry(path, reqtype, t) ==
  LET req == Request(path, reqtype)
      reqs == IF t.kind = "exception" THEN <<req, req>> ELSE <<req>> IN
  IF t.kind = "exception"
  THEN [requests |-> reqs, kind |-> "raise", exc |-> "NetworkError",
        status |-> 0, reason |-> "", path |-> <<>>, content |-> ""]
  ELSE IF t.status # 200
  THEN [requests |-> reqs, kind |-> "raise", exc |-> "HTTPError",
        status |-> t.status, reason |-> t.reason, path |-> path, content |-> ""]
  ELSE [requests |-> reqs, kind |-> "return", exc |-> "",
        status |-> t.status, reason |-> t.reason, path |-> <<>>,
        content |-> t.content]

\* Outcome of do_call: the requests it handed to the transport, and either
\* the exception it raises or the (resp, content) it returns.
do_call(path, reqtype, t) ==
  LET reqs == <<Request(path, reqtype)>> IN
  IF t.kind = "exception"
  THEN [requests |-> reqs, kind |-> "raise", exc |-> "NetworkError",
        status |-> 0, reason |-> "", path |-> <<>>, content |-> ""]
  ELSE IF t.status # 200
  THEN [requests |-> reqs, kind |-> "raise", exc |-> "HTTPError",
        status |-> t.status, reason |-> t.reason, path |-> path, content |-> ""]
  ELSE [requests |-> reqs, kind |-> "return", exc |-> "",
        status |-> t.status, reason |-> t.reason, path |-> <<>>,
        content |-> t.content]

NoCall == [requests |-> <<>>, kind |-> "none", exc |-> "", status |-> 0,
           reason |-> "", path |-> <<>>, content |-> ""]

(* ----------------------- outcomes of an operation ---------------------- *)

Raises(e, dec) ==
  [kind |-> "raise", exc |-> e, status |-> 0, reason |-> "", path |-> <<>>,
   value |-> "", decoded |-> dec]

\* A bare 'raise' / an uncaught exception of do_call: the same exception,
\* with the same attributes, reaches the caller.
Propagate(c) ==
  [kind |-> "raise", exc |-> c.exc, status |-> c.status, reason |-> c.reason,
   path |-> c.path, value |-> "", decoded |-> FALSE]

Returns(v, dec) ==
  [kind |-> "return", exc |-> "", status |-> 0, reason |-> "", path |-> <<>>,
   value |-> v, decoded |-> dec]

NoResult ==
  [kind |-> "none", exc |-> "", status |-> 0, reason |-> "", path |-> <<>>,
   value |-> "", decoded |-> FALSE]

\* content.decode('utf8') then json.loads
decode_json_content(content) ==
  CASE content = "{}" -> [ok |-> TRUE, value |-> "dict", exc |-> ""]
    [] content = "[]" -> [ok |-> TRUE, value |-> "list", exc |-> ""]
    [] content = "\\xff" -> [ok |-> FALSE, value |-> "", exc |-> "UnicodeDecodeError"]
    [] OTHER -> [ok |-> FALSE, value |-> "", exc |-> "ValueError"]

\* resp, content = self.do_call(...); x = self.decode_json_content(content);
\* return x
DecodeAndReturn(c) ==
  IF c.kind = "raise" THEN Propagate(c)
  ELSE LET d == decode_json_content(c.content) IN
       IF d.ok THEN Returns(d.value, TRUE) ELSE Raises(d.exc, TRUE)

(* --------------------------- the operations ---------------------------- *)
\* Each operation yields the outcome of its do_call (call) and what the
\* caller sees (res).  b is self.base_url, t what the transport does.

\* is_alive translating a 401 instead of a 404.
is_alive_on401(b, vh, t) ==
  LET uri == Join(b, Format(urls.live_test, <<vh>>))
      c == do_call(uri, "GET", t) IN
  [call |-> c,
   res |-> IF c.kind = "raise" /\ c.exc = "HTTPError"
           THEN IF c.status = 401 THEN Raises("APIError", FALSE)
                ELSE Propagate(c)
           ELSE IF c.kind = "raise" THEN Propagate(c)
           ELSE IF c.status = 200 THEN Returns("True", FALSE)
           ELSE Returns("False", FALSE)]

is_alive(b, vh, t) ==
  LET uri == Join(b, Format(urls.live_test, <<vh>>))
      c == do_call(uri, "GET", t) IN
  [call |-> c,
   res |-> IF c.kind = "raise" /\ c.exc = "HTTPError"
           THEN IF c.status = 404 THEN Raises("APIError", FALSE)
                ELSE Propagate(c)
           ELSE IF c.kind = "raise" THEN Propagate(c)
           ELSE IF c.status = 200 THEN Returns("True", FALSE)
           ELSE Returns("False", FALSE)]

get_whoami(b, t) ==
  LET c == do_call(Join(b, urls.whoami), "GET", t) IN
  [call |-> c, res |-> DecodeAndReturn(c)]

\* get_users translating every HTTPError, whatever its status.
get_users_anyStatus(b, t) ==
  LET c == do_call(Join(b, urls.all_users), "GET", t) IN
  [call |-> c,
   res |-> IF c.kind = "raise" /\ c.exc = "HTTPError"
           THEN Raises("APIError", FALSE)
           ELSE DecodeAndReturn(c)]

get_users(b, t) ==
  LET c == do_call(Join(b, urls.all_users), "GET", t) IN
  [call |-> c,
   res |-> IF c.kind = "raise" /\ c.exc = "HTTPError"
           THEN IF c.status = 401 THEN Raises("APIError", FALSE)
                ELSE Propagate(c)
           ELSE DecodeAndReturn(c)]

get_overview(b, t) ==
  LET c == do_call(Join(b, urls.overview), "GET", t) IN
  [call |-> c, res |-> DecodeAndReturn(c)]

get_all_vhosts(b, t) ==
  LET c == do_call(Join(b, urls.all_vhosts), "GET", t) IN
  [call |-> c, res |-> DecodeAndReturn(c)]

\* get_queues testing 'vhost is not None' instead of the truth of vhost.
get_queues_isNotNone(b, vh, t) ==
  LET path == IF vh # None THEN Format(urls.queues_by_vhost, <<vh>>)
              ELSE urls.all_queues
      c == do_call(Join(b, path), "GET", t) IN
  [call |-> c, res |-> DecodeAndReturn(c)]

get_queues(b, vh, t) ==
  LET path == IF Truthy(vh) THEN Format(urls.queues_by_vhost, <<vh>>)
              ELSE urls.all_queues
      c == do_call(Join(b, path), "GET", t) IN
  [call |-> c, res |-> DecodeAndReturn(c)]

\* get_queue sending DELETE, as purge_queue does.
get_queue_delete(b, vh, nm, t) ==
  LET path == Format(urls.queues_by_name, <<vh, nm>>)
      c == do_call(Join(b, path), "DELETE", t) IN
  [call |-> c, res |-> DecodeAndReturn(c)]

get_queue(b, vh, nm, t) ==
  LET path == Format(urls.queues_by_name, <<vh, nm>>)
      c == do_call(Join(b, path), "GET", t) IN
  [call |-> c, res |-> DecodeAndReturn(c)]

purge_queue(b, vh, nm, t) ==
  LET path == Format(urls.purge_queue, <<vh, nm>>)
      c == do_call(Join(b, path), "DELETE", t) IN
  [call |-> c,
   res |-> IF c.kind = "raise" /\ c.exc = "HTTPError"
           THEN IF c.status = 204 THEN Returns("True", FALSE)
                ELSE Propagate(c)
           ELSE IF c.kind = "raise" THEN Propagate(c)
           ELSE Returns("True", FALSE)]

get_exchanges(b, vh, t) ==
  LET path == IF Truthy(vh) THEN Format(urls.exchanges_by_vhost, <<vh>>)
              ELSE urls.all_exchanges
      c == do_call(Join(b, path), "GET", t) IN
  [call |-> c, res |-> DecodeAndReturn(c)]

get_exchange(b, vh, nm, t) ==
  LET path == Format(urls.exchange_by_name, <<vh, nm>>)
      c == do_call(Join(b, path), "GET", t) IN
  [call |-> c, res |-> DecodeAndReturn(c)]

\* The by-name template is used as it stands: no '% name' is applied.
get_connections(b, nm, t) ==
  LET path == IF Truthy(nm) THEN urls.connections_by_name
              ELSE urls.all_connections
      c == do_call(Join(b, path), "GET", t) IN
  [call |-> c, res |-> DecodeAndReturn(c)]

get_channels(b, t) ==
  LET path == urls.all_channels
      c == do_call(Join(b, path), "GET", t) IN
  [call |-> c, res |-> DecodeAndReturn(c)]

(* ----------------------------- behaviour ------------------------------- *)

Init ==
  /\ base_url \in {BaseUrl(s) : s \in Servers}
  /\ op = "none"
  /\ vhost = None
  /\ name = None
  /\ transport = NoTransport
  /\ call = NoCall
  /\ result = NoResult
  /\ sent = 0

\* One invocation of operation o with arguments v, n, during which the
\* transport did t and the operation produced r.
Invoke(o, v, n, t, r) ==
  /\ sent < MaxSent
  /\ op' = o
  /\ vhost' = v
  /\ name' = n
  /\ transport' = t
  /\ call' = r.call
  /\ result' = r.res
  /\ sent' = sent + Len(r.call.requests)
  /\ UNCHANGED base_url

IsAlive ==
  \E v \in Strings, t \in TransportOutcomes :
    Invoke("is_alive", v, None, t, is_alive(base_url, v, t))

GetWhoami ==
  \E t \in TransportOutcomes :
    Invoke("get_whoami", None, None, t, get_whoami(base_url, t))

GetUsers ==
  \E t \in TransportOutcomes :
    Invoke("get_users", None, None, t, get_users(base_url, t))

GetOverview ==
  \E t \in TransportOutcomes :
    Invoke("get_overview", None, None, t, get_overview(base_url, t))

GetAllVhosts ==
  \E t \in TransportOutcomes :
    Invoke("get_all_vhosts", None, None, t, get_all_vhosts(base_url, t))

GetQueues ==
  \E v \in OptStrings, t \in TransportOutcomes :
    Invoke("get_queues", v, None, t, get_queues(base_url, v, t))

GetQueue ==
  \E v \in Strings, n \in Strings, t \in TransportOutcomes :
    Invoke("get_queue", v, n, t, get_queue(base_url, v, n, t))

PurgeQueue ==
  \E v \in Strings, n \in Strings, t \in TransportOutcomes :
    Invoke("purge_queue", v, n, t, purge_queue(base_url, v, n, t))

GetExchanges ==
  \E v \in OptStrings, t \in TransportOutcomes :
    Invoke("get_exchanges", v, None, t, get_exchanges(base_url, v, t))

GetExchange ==
  \E v \in Strings, n \in Strings, t \in TransportOutcomes :
    Invoke("get_exchange", v, n, t, get_exchange(base_url, v, n, t))

GetConnections ==
  \E n \in OptStrings, t \in TransportOutcomes :
    Invoke("get_connections", None, n, t, get_connections(base_url, n, t))

GetChannels ==
  \E t \in TransportOutcomes :
    Invoke("get_channels", None, None, t, get_channels(base_url, t))

Next ==
  \/ IsAlive
  \/ GetWhoami
  \/ GetUsers
  \/ GetOverview
  \/ GetAllVhosts
  \/ GetQueues
  \/ GetQueue
  \/ PurgeQueue
  \/ GetExchanges
  \/ GetExchange
  \/ GetConnections
  \/ GetChannels

Spec == Init /\ [][Next]_vars

(* --------------------------- shorthands -------------------------------- *)

Called == op # "none"

Responded == transport.kind = "response"

TheRequest == call.requests[1]

\* The HTTPError built by do_call from the response and the requested path
\* reaches the caller as it was raised.
HTTPErrorPropagated ==
  /\ result.kind = "raise"
  /\ result.exc = "HTTPError"
  /\ result.status = transport.status
  /\ result.reason = transport.reason
  /\ result.path = TheRequest.uri

RaisesAPIError == result.kind = "raise" /\ result.exc = "APIError"

Failed == transport.kind = "exception" \/ (Responded /\ transport.status # 200)

OnePath(tmpl, args) == Join(base_url, Format(tmpl, args))

(* ------------------------------ claims --------------------------------- *)

C2_GetUsers401IsAPIError ==
  (Called /\ Responded) =>
    /\ (op = "get_users" /\ transport.status = 401) => RaisesAPIError
    /\ (op = "get_users" /\ transport.status \notin {200, 401})
          => HTTPErrorPropagated
    /\ (op # "get_users" /\ transport.status = 401)
          => (~RaisesAPIError /\ HTTPErrorPropagated)

C2_Witness ==
  /\ op = "get_users"
  /\ Responded
  /\ transport.status = 401
  /\ RaisesAPIError

\* C3: do_call has three outcomes: NetworkError when the transport raises;
\* HTTPError carrying the response's status and reason and the requested
\* path when the status is not 200 (204 included); (resp, content) only
\* when the status is exactly 200.
C3_DoCallOutcomes ==
  Called =>
    /\ transport.kind = "exception"
          => (call.kind = "raise" /\ call.exc = "NetworkError")
    /\ (Responded /\ transport.status # 200)
          => /\ call.kind = "raise"
             /\ call.exc = "HTTPError"
             /\ call.status = transport.status
             /\ call.reason = transport.reason
             /\ call.path = TheRequest.uri
    /\ (Responded /\ transport.status = 200)
          => /\ call.kind = "return"
             /\ call.status = 200
             /\ call.content = transport.content
    /\ call.kind = "return" => (Responded /\ transport.status = 200)

C3_Witness ==
  /\ Called
  /\ Responded
  /\ transport.status = 204
  /\ call.kind = "raise"
  /\ call.exc = "HTTPError"
  /\ call.status = 204

\* C4 (as stated): every invocation sends exactly one request; after a
\* transport failure or a non-200 status the error is raised to the caller;
\* JSON decoding is attempted only after a 200.
C4_Original ==
  Called =>
    /\ Len(call.requests) = 1
    /\ Failed => result.kind = "raise"
    /\ result.decoded => (Responded /\ transport.status = 200)

\* C4 (amended): every invocation sends exactly one request; after a
\* transport failure or a non-200 status the error is raised to the caller,
\* except that purge_queue answered with 204 returns True; JSON decoding is
\* attempted only after a 200.
C4_OneRequestPerInvocation ==
  Called =>
    /\ Len(call.requests) = 1
    /\ (Failed /\ ~(op = "purge_queue" /\ transport.status = 204))
          => /\ result.kind = "raise"
             /\ result.exc \in {"NetworkError", "HTTPError", "APIError"}
    /\ (op = "purge_queue" /\ Responded /\ transport.status = 204)
          => (result.kind = "return" /\ result.value = "True")
    /\ result.decoded => (Responded /\ transport.status = 200)

C4_Witness ==
  /\ op = "purge_queue"
  /\ Responded
  /\ transport.status = 204
  /\ result.kind = "return"
  /\ Len(call.requests) = 1
  /\ sent = 2

\* C5: is_alive returns a boolean: True when the broker is alive, and False
\* for the responses that say otherwise (every non-200 answer other than
\* the 404 of a missing vhost).
C5_IsAliveReturnsFalse ==
  (op = "is_alive" /\ Responded /\ transport.status \notin {200, 404})
     => (result.kind = "return" /\ result.value = "False")

\* What the code does instead: no response at all makes is_alive return
\* False.
is_alive_never_False ==
  op = "is_alive" => ~(result.kind = "return" /\ result.value = "False")

\* C6: is_alive raises HTTPError when the vhost does not exist (the broker
\* answers 404).
C6_IsAlive404IsHTTPError ==
  (op = "is_alive" /\ Responded /\ transport.status = 404)
     => (result.kind = "raise" /\ result.exc = "HTTPError")

\* The template of the urls table an operation is documented to request,
\* and the arguments that fill it.
TemplateOf ==
  CASE op = "is_alive" -> urls.live_test
    [] op = "get_whoami" -> urls.whoami
    [] op = "get_users" -> urls.all_users
    [] op = "get_overview" -> urls.overview
    [] op = "get_all_vhosts" -> urls.all_vhosts
    [] op = "get_queues" ->
         IF Truthy(vhost) THEN urls.queues_by_vhost ELSE urls.all_queues
    [] op = "get_queue" -> urls.queues_by_name
    [] op = "purge_queue" -> urls.purge_queue
    [] op = "get_exchanges" ->
         IF Truthy(vhost) THEN urls.exchanges_by_vhost ELSE urls.all_exchanges
    [] op = "get_exchange" -> urls.exchange_by_name
    [] op = "get_connections" ->
         IF Truthy(name) THEN urls.connections_by_name
         ELSE urls.all_connections
    [] OTHER -> urls.all_channels

ArgsOf ==
  CASE op \in {"get_queue", "purge_queue", "get_exchange"} -> <<vhost, name>>
    [] op = "get_connections" -> <<name>>
    [] OTHER -> <<vhost>>

\* C7: the requested URL is base_url joined with the operation's template
\* in which every '%s' has been replaced by the caller's arguments in
\* order; get_connections(name) with a non-empty name requests
\* 'connections/<name>'; no request carries an unsubstituted '%s'.
C7_PathFromTemplate ==
  Called =>
    /\ TheRequest.uri = base_url \o <<"/">> \o Format(TemplateOf, ArgsOf)
    /\ \A i \in 1..Len(TheRequest.uri) : TheRequest.uri[i] # "%s"

\* C8 (as stated): get_queues / get_exchanges request the all-vhosts
\* listing when vhost is None and the per-vhost listing whenever a vhost is
\* supplied.
C8_Original ==
  /\ op = "get_queues" =>
       TheRequest.uri = IF vhost = None
                        THEN OnePath(urls.all_queues, <<>>)
                        ELSE OnePath(urls.queues_by_vhost, <<vhost>>)
  /\ op = "get_exchanges" =>
       TheRequest.uri = IF vhost = None
                        THEN OnePath(urls.all_exchanges, <<>>)
                        ELSE OnePath(urls.exchanges_by_vhost, <<vhost>>)

\* C8 (amended): get_queues / get_exchanges request the all-vhosts listing
\* when vhost is None or the empty string, and the per-vhost listing
\* whenever a non-empty vhost is supplied.
C8_ListingByVhost ==
  /\ op = "get_queues" =>
       TheRequest.uri = IF vhost = None \/ vhost = Str(<<>>)
                        THEN base_url \o <<"/", "queues">>
                        ELSE base_url \o <<"/", "queues", "/">> \o vhost.s
  /\ op = "get_exchanges" =>
       TheRequest.uri = IF vhost = None \/ vhost = Str(<<>>)
                        THEN base_url \o <<"/", "exchanges">>
                        ELSE base_url \o <<"/", "exchanges", "/">> \o vhost.s

C8_Witness ==
  /\ op = "get_queues"
  /\ vhost = Str(<<>>)
  /\ TheRequest.uri = base_url \o <<"/", "queues">>

====
